---- MODULE Spec2Model ----
(***************************************************************************)
(* A model of DeltaPerformer (update_engine/delta_performer.cc): the       *)
(* streaming applier of a delta-update payload.  The host pushes the       *)
(* payload in chunks through Write; Write parses the manifest, performs    *)
(* the install operations whose data blob is buffered and checkpoints the  *)
(* progress in the preferences store.  A Write call is modelled as a run   *)
(* of steps (pc), one step per preference-store write, so that the states  *)
(* a crash can leave behind are states of the model.                       *)
(***************************************************************************)
EXTENDS Integers, Sequences, FiniteSets, TLC

(***************************************************************************)
(* Program constants.                                                      *)
(***************************************************************************)
\* The payload's leading tag, "CrAU" (strlen(kDeltaMagic) = 4).
kDeltaMagic == <<67, 114, 65, 85>>
kDeltaVersionLength == 8
kDeltaProtobufLengthLength == 8
kUpdateStateOperationInvalid == -1
EINVAL == 22
\* errno of close() on a descriptor that is not open.
EBADF == 9
\* Extent.start_block of a sparse hole: the largest value of the unsigned
\* domain of start_block (written here in a 16-bit domain).
kSparseHole == 65535
\* The value last_updated_buffer_offset_ has before any checkpoint: the
\* largest value of its domain, no offset of a payload.
kuint64max == kSparseHole

\* Preference keys.
kPrefsManifestMetadataSize == "manifest-metadata-size"
kPrefsUpdateStateNextOperation == "update-state-next-operation"
kPrefsUpdateStateNextDataOffset == "update-state-next-data-offset"
kPrefsUpdateStateSHA256Context == "update-state-sha256-context"
kPrefsUpdateStateSignedSHA256Context == "update-state-signed-sha256-context"
kPrefsUpdateCheckResponseHash == "update-check-response-hash"

(***************************************************************************)
(* Bounds of the model.                                                    *)
(***************************************************************************)
\* Blocks of the rootfs and of the kernel device.
RootfsBlocks == 4
KernelBlocks == 2
\* The preference-store write that fails is one of the first MaxFailAt
\* writes of the run (0: none fails).
MaxFailAt == 8
\* The host's chunks: up to MaxChunk bytes, or the whole prefix up to the
\* protobuf, or all that is left of the payload.
MaxChunk == 3
\* The extents, blocks per extent and full_length of the calls of
\* ExtentsToBsdiffPositionsString that are checked on their own.
MaxExtents == 3
MaxNumBlocks == 2
MaxFullLength == 7
\* The largest dst_length of the BSDIFF manifests.
MaxDstLength == 4

(***************************************************************************)
(* Sequences of bytes.                                                     *)
(***************************************************************************)
Min(a, b) == IF a <= b THEN a ELSE b

Take(s, n) == SubSeq(s, 1, Min(n, Len(s)))

Drop(s, n) == SubSeq(s, Min(n, Len(s)) + 1, Len(s))

Zeros(n) == [i \in 1..n |-> 0]

\* The bytes <<1, ..., n>>: the data-blob region of a payload.
Iota(n) == [i \in 1..n |-> i]

RECURSIVE be64toh(_)
\* The unsigned big-endian value of a byte string.
be64toh(bytes) ==
  IF bytes = <<>> THEN 0
  ELSE 256 * be64toh(SubSeq(bytes, 1, Len(bytes) - 1)) + bytes[Len(bytes)]

\* The 8-byte big-endian form of a length below 256.
htobe64(n) == Zeros(kDeltaProtobufLengthLength - 1) \o <<n>>

(***************************************************************************)
(* The manifest.  ParseFromArray is protobuf's: the model replaces the     *)
(* wire format by a catalogue, the protobuf bytes being one byte, the      *)
(* number of a manifest of the catalogue; any other bytes do not parse.    *)
(***************************************************************************)
Extent(start, num) == [start_block |-> start, num_blocks |-> num]

InstallOperation(type, src, dst, offset, length) ==
  [type |-> type, src_extents |-> src, dst_extents |-> dst,
   data_offset |-> offset, data_length |-> length,
   src_length |-> 0, dst_length |-> 0]

Bsdiff(src, dst, offset, length, src_length, dst_length) ==
  [type |-> "BSDIFF", src_extents |-> src, dst_extents |-> dst,
   data_offset |-> offset, data_length |-> length,
   src_length |-> src_length, dst_length |-> dst_length]

Manifest(block_size, ops, kernel_ops) ==
  [block_size |-> block_size, install_operations |-> ops,
   kernel_install_operations |-> kernel_ops,
   has_signatures_offset |-> FALSE, signatures_offset |-> 0,
   has_signatures_size |-> FALSE, signatures_size |-> 0]

Signed(m, offset, size) ==
  [m EXCEPT !.has_signatures_offset = TRUE, !.signatures_offset = offset,
            !.has_signatures_size = TRUE, !.signatures_size = size]

\* A block index past the end of both devices.
FarBlock == RootfsBlocks + KernelBlocks + 3

\* REPLACE, MOVE on the rootfs, then a REPLACE on the kernel.
ManifestBasic ==
  Manifest(2,
    << InstallOperation("REPLACE", <<>>, <<Extent(0, 1)>>, 0, 2),
       InstallOperation("MOVE", <<Extent(0, 1)>>, <<Extent(1, 1)>>, 0, 0) >>,
    << InstallOperation("REPLACE", <<>>, <<Extent(0, 1)>>, 2, 1) >>)

\* The second operation's blob starts before the end of the first one's.
ManifestRegress ==
  Manifest(2,
    << InstallOperation("REPLACE", <<>>, <<Extent(0, 1)>>, 0, 2),
       InstallOperation("REPLACE", <<>>, <<Extent(1, 1)>>, 1, 1) >>,
    <<>>)

\* An operation of a type Write does not dispatch on.
ManifestOther ==
  Manifest(2,
    << InstallOperation("REPLACE", <<>>, <<Extent(0, 1)>>, 0, 1),
       InstallOperation("OTHER", <<>>, <<Extent(1, 1)>>, 1, 1),
       InstallOperation("REPLACE", <<>>, <<Extent(2, 1)>>, 1, 2) >>,
    <<>>)

\* A blob that does not start where the previous one ended.
ManifestGap ==
  Manifest(2,
    << InstallOperation("REPLACE", <<>>, <<Extent(0, 1)>>, 1, 1) >>,
    <<>>)

\* A BSDIFF whose output ends inside a block, then a REPLACE_BZ on the kernel.
ManifestBsdiff ==
  Manifest(2,
    << Bsdiff(<<Extent(0, 1)>>, <<Extent(1, 1)>>, 0, 2, 2, 1) >>,
    << InstallOperation("REPLACE_BZ", <<>>, <<Extent(0, 1)>>, 2, 1) >>)

\* The second REPLACE carries the signature message.
ManifestSigned ==
  Signed(Manifest(2,
    << InstallOperation("REPLACE", <<>>, <<Extent(0, 1)>>, 0, 1),
       InstallOperation("REPLACE", <<>>, <<Extent(3, 1)>>, 1, 2) >>,
    <<>>), 1, 2)

\* A MOVE that swaps blocks 0 and 1 and whose last write is past the device.
ManifestBadMove ==
  Manifest(2,
    << InstallOperation("REPLACE", <<>>, <<Extent(3, 1)>>, 0, 1),
       InstallOperation("MOVE",
         <<Extent(0, 1), Extent(1, 1), Extent(2, 1)>>,
         <<Extent(1, 1), Extent(0, 1), Extent(FarBlock, 1)>>, 0, 0),
       InstallOperation("REPLACE", <<>>, <<Extent(3, 1)>>, 1, 1) >>,
    <<>>)

\* A MOVE as the first operation: blocks 0 and 2 to blocks 1 and 3.
ManifestMoveFirst ==
  Manifest(2,
    << InstallOperation("MOVE", <<Extent(0, 1), Extent(2, 1)>>,
                        <<Extent(1, 1), Extent(3, 1)>>, 0, 0) >>,
    <<>>)

Manifests ==
  << ManifestBasic, ManifestRegress, ManifestOther, ManifestGap,
     ManifestBsdiff, ManifestSigned, ManifestBadMove, ManifestMoveFirst >>

\* The destination extents of the BSDIFF manifests: one block, two blocks,
\* two extents, extents that end in a sparse hole or in an empty extent,
\* and extents that reach past the device.
BsdiffDstExtents ==
  << <<Extent(1, 1)>>,
     <<Extent(1, 2)>>,
     <<Extent(0, 1), Extent(2, 1)>>,
     <<Extent(1, 1), Extent(kSparseHole, 1)>>,
     <<Extent(1, 1), Extent(kSparseHole, 2)>>,
     <<Extent(1, 1), Extent(3, 0)>>,
     <<Extent(3, 2)>> >>

\* The manifests of one BSDIFF on the rootfs, of a patch of two bytes: the
\* k-th has the ((k - 1) \div MaxDstLength + 1)-th destination extents
\* and a dst_length of (k - 1) % MaxDstLength + 1.
BsdiffManifests ==
  [k \in 1..(Len(BsdiffDstExtents) * MaxDstLength) |->
     Manifest(2,
       << Bsdiff(<<Extent(0, 1)>>,
                 BsdiffDstExtents[((k - 1) \div MaxDstLength) + 1],
                 0, 2, 2, ((k - 1) % MaxDstLength) + 1) >>,
       <<>>)]

\* The protobuf of a manifest is its number: the catalogue first, then the
\* BSDIFF manifests.
ParseFromArray(bytes) ==
  IF Len(bytes) = 1 /\ bytes[1] \in 1..Len(Manifests)
    THEN [ok |-> TRUE, manifest |-> Manifests[bytes[1]]]
  ELSE IF Len(bytes) = 1
          /\ (bytes[1] - Len(Manifests)) \in 1..Len(BsdiffManifests)
    THEN [ok |-> TRUE,
          manifest |-> BsdiffManifests[bytes[1] - Len(Manifests)]]
    ELSE [ok |-> FALSE, manifest |-> Manifest(0, <<>>, <<>>)]

\* The operations of a manifest in execution order.
AllOperations(m) == m.install_operations \o m.kernel_install_operations

RECURSIVE BlobEnd(_)
\* The end of the last data blob a sequence of operations refers to.
BlobEnd(ops) ==
  IF ops = <<>> THEN 0
  ELSE LET end == Head(ops).data_offset + Head(ops).data_length
           rest == BlobEnd(Tail(ops))
       IN IF end >= rest THEN end ELSE rest

(***************************************************************************)
(* Payloads: MAGIC, VERSION, PROTOBUF_LENGTH, PROTOBUF, DATA BLOBS.        *)
(***************************************************************************)
Payload(magic, protobuf, blobs) ==
  magic \o Zeros(kDeltaVersionLength) \o htobe64(Len(protobuf))
        \o protobuf \o blobs

BadMagic == <<67, 114, 65, 86>>

Payloads ==
  { Payload(kDeltaMagic, <<k>>, Iota(BlobEnd(AllOperations(Manifests[k])))) :
      k \in 1..Len(Manifests) }
  \cup { \* the first payload behind another tag
         Payload(BadMagic, <<1>>, Iota(BlobEnd(AllOperations(Manifests[1])))),
         \* protobuf bytes that do not parse
         Payload(kDeltaMagic, <<0>>, Iota(1)),
         \* the first payload followed by a byte no operation refers to
         Payload(kDeltaMagic, <<1>>,
                 Iota(BlobEnd(AllOperations(Manifests[1])) + 1)) }

\* The payloads of the BSDIFF manifests.
BsdiffPayloads ==
  { Payload(kDeltaMagic, <<Len(Manifests) + k>>, Iota(2)) :
      k \in 1..Len(BsdiffManifests) }

VARIABLES
  \* the host and the environment
  payload,       \* the byte stream the host is pushing
  fed,           \* how many of its bytes Write has been given
  fail_at,       \* which preference-store write of the run fails (0: none)
  set_calls,     \* preference-store writes made so far
  phase,         \* "setup" before the first Write, "streaming" while only
                 \* Write is called, "mixed" once Open or OpenKernel follows one
  prefs,         \* the preferences store: key -> value, for the stored keys
  files,         \* the contents of the two devices
  open_fds,      \* the descriptors open in the process
  temp_files,    \* the temporary patch files that exist
  temp_fault,    \* what fails in the temporary directory: "none",
                 \* "create" (MakeTempFile fails) or "write" (WriteAll fails)
  exit_blocked,  \* Terminator's exit-blocked flag
  exit_requested,\* Terminator's exit-requested flag
  exited,        \* the process has exited through the Terminator
  call,          \* the host's last call and, but for Write, what it returned
  \* the DeltaPerformer object
  fd_, kernel_fd_, path_, kernel_path_,
  buffer_, buffer_offset_, last_updated_buffer_offset_,
  manifest_valid_, manifest_, manifest_metadata_size_,
  next_operation_num_, block_size_,
  signatures_message_data_, signed_hash_context_, hash_calculator_,
  \* the Write call in progress
  pc,            \* "idle" between calls, else the place Write has reached
  count,         \* the count argument of the call
  ret,           \* what the last Write returned
  fatal,         \* the call hit a parse error or a failing operation
  erred,         \* some Write of the run returned an error
  pref_failed,   \* a preference-store write of the call failed
  \* history
  applied,       \* the operations performed, in order, with their partition
  done_at,       \* done_at[n]: buffer_offset_ and hash state after n operations
  extractions    \* how many times the signature message was extracted

vars ==
  << payload, fed, fail_at, set_calls, phase, prefs, files, open_fds,
     temp_files, temp_fault, exit_blocked, exit_requested, exited, call,
     fd_, kernel_fd_, path_, kernel_path_, buffer_,
     buffer_offset_, last_updated_buffer_offset_, manifest_valid_, manifest_,
     manifest_metadata_size_, next_operation_num_, block_size_,
     signatures_message_data_, signed_hash_context_, hash_calculator_,
     pc, count, ret, fatal, erred, pref_failed, applied, done_at,
     extractions >>

(***************************************************************************)
(* The state Write works on, as one record, so that Write's steps are      *)
(* operators that can be run to the end of a call.                         *)
(***************************************************************************)
World ==
  [ set_calls |-> set_calls, prefs |-> prefs, files |-> files,
    open_fds |-> open_fds, temp_files |-> temp_files,
    temp_fault |-> temp_fault, exit_blocked |-> exit_blocked,
    exit_requested |-> exit_requested, exited |-> exited,
    fd_ |-> fd_, kernel_fd_ |-> kernel_fd_,
    path_ |-> path_, kernel_path_ |-> kernel_path_,
    buffer_ |-> buffer_, buffer_offset_ |-> buffer_offset_,
    last_updated_buffer_offset_ |-> last_updated_buffer_offset_,
    manifest_valid_ |-> manifest_valid_, manifest_ |-> manifest_,
    manifest_metadata_size_ |-> manifest_metadata_size_,
    next_operation_num_ |-> next_operation_num_, block_size_ |-> block_size_,
    signatures_message_data_ |-> signatures_message_data_,
    signed_hash_context_ |-> signed_hash_context_,
    hash_calculator_ |-> hash_calculator_,
    pc |-> pc, count |-> count, ret |-> ret, fatal |-> fatal,
    erred |-> erred, pref_failed |-> pref_failed,
    applied |-> applied, done_at |-> done_at, extractions |-> extractions ]

Install(w) ==
  /\ set_calls' = w.set_calls
  /\ prefs' = w.prefs
  /\ files' = w.files
  /\ open_fds' = w.open_fds
  /\ temp_files' = w.temp_files
  /\ temp_fault' = w.temp_fault
  /\ exit_blocked' = w.exit_blocked
  /\ exit_requested' = w.exit_requested
  /\ exited' = w.exited
  /\ fd_' = w.fd_
  /\ kernel_fd_' = w.kernel_fd_
  /\ path_' = w.path_
  /\ kernel_path_' = w.kernel_path_
  /\ buffer_' = w.buffer_
  /\ buffer_offset_' = w.buffer_offset_
  /\ last_updated_buffer_offset_' = w.last_updated_buffer_offset_
  /\ manifest_valid_' = w.manifest_valid_
  /\ manifest_' = w.manifest_
  /\ manifest_metadata_size_' = w.manifest_metadata_size_
  /\ next_operation_num_' = w.next_operation_num_
  /\ block_size_' = w.block_size_
  /\ signatures_message_data_' = w.signatures_message_data_
  /\ signed_hash_context_' = w.signed_hash_context_
  /\ hash_calculator_' = w.hash_calculator_
  /\ pc' = w.pc
  /\ count' = w.count
  /\ ret' = w.ret
  /\ fatal' = w.fatal
  /\ erred' = w.erred
  /\ pref_failed' = w.pref_failed
  /\ applied' = w.applied
  /\ done_at' = w.done_at
  /\ extractions' = w.extractions

(***************************************************************************)
(* The collaborators: the hasher, the preferences store, the devices.      *)
(***************************************************************************)
\* OmahaHashCalculator.  The hash state is the bytes absorbed: two states
\* are equal iff they absorbed the same bytes.
HashUpdate(h, bytes) == [h EXCEPT !.bytes = @ \o bytes]

GetContext(h) == h.bytes

\* PrefsInterface::SetInt64 / SetString: the write numbered fail_at fails
\* and leaves the store as it was.  Past MaxFailAt no write fails and the
\* count stops.
PrefsSet(w, key, value) ==
  LET n == Min(w.set_calls + 1, MaxFailAt + 1)
      ok == n # fail_at
  IN [ ok |-> ok,
       w |-> [w EXCEPT
                !.set_calls = n,
                !.pref_failed = @ \/ ~ok,
                !.prefs = IF ok
                           THEN [k \in DOMAIN w.prefs \cup {key} |->
                                   IF k = key THEN value ELSE w.prefs[k]]
                           ELSE @] ]

\* The descriptor open() returns for a device, and the device behind it.
FdOf(path) == IF path = "rootfs" THEN 3 ELSE 4

FileOf(fd) == IF fd = 3 THEN "rootfs" ELSE "kernel"

\* utils::PWriteAll(fd, data, offset): fails on a descriptor that is not
\* open and on a write that does not fit the device.
PWriteAll(w, fd, data, offset) ==
  IF fd \in w.open_fds /\ offset >= 0
     /\ offset + Len(data) <= Len(w.files[FileOf(fd)])
    THEN [ ok |-> TRUE,
           w |-> [w EXCEPT !.files[FileOf(fd)] =
                    [i \in 1..Len(@) |->
                       IF i > offset /\ i <= offset + Len(data)
                         THEN data[i - offset] ELSE @[i]]] ]
    ELSE [ok |-> FALSE, w |-> w]

\* utils::PReadAll(fd, n, offset) with the test that all n bytes were read.
PReadAll(w, fd, n, offset) ==
  IF fd \in w.open_fds /\ offset >= 0
     /\ offset + n <= Len(w.files[FileOf(fd)])
    THEN [ok |-> TRUE,
          bytes |-> SubSeq(w.files[FileOf(fd)], offset + 1, offset + n)]
    ELSE [ok |-> FALSE, bytes |-> <<>>]

RECURSIVE DirectExtentWriter(_, _, _, _, _)
\* DirectExtentWriter::Write: the bytes scattered over the extents in order;
\* a sparse hole takes its share of the bytes and writes nothing.
DirectExtentWriter(w, fd, extents, block_size, data) ==
  IF data = <<>> THEN [ok |-> TRUE, w |-> w]
  ELSE IF extents = <<>> THEN [ok |-> FALSE, w |-> w]
  ELSE LET e == Head(extents)
           room == e.num_blocks * block_size
           r == IF e.start_block = kSparseHole
                  THEN [ok |-> TRUE, w |-> w]
                  ELSE PWriteAll(w, fd, Take(data, room),
                                 e.start_block * block_size)
       IN IF r.ok
            THEN DirectExtentWriter(r.w, fd, Tail(extents), block_size,
                                    Drop(data, room))
            ELSE r

\* ZeroPadExtentWriter over DirectExtentWriter: at End the bytes written
\* are rounded up to whole blocks with zeros.
ZeroPadExtentWriter(w, fd, extents, block_size, data) ==
  LET past == IF block_size = 0 THEN 0 ELSE Len(data) % block_size
      pad == IF past = 0 THEN 0 ELSE block_size - past
  IN DirectExtentWriter(w, fd, extents, block_size, data \o Zeros(pad))

\* The bzip2 decoder: a stream decodes to each of its bytes twice.
BzDecompress(data) == [i \in 1..(2 * Len(data)) |-> data[(i + 1) \div 2]]

RECURSIVE ReadPositions(_, _, _)
\* bspatch reading the old file at its input positions: <<>> when a
\* position is outside the file, else the bytes (zeros for a hole).
ReadPositions(file, positions, acc) ==
  IF positions = <<>> THEN <<TRUE, acc>>
  ELSE LET p == Head(positions)
       IN IF p.start = -1
            THEN ReadPositions(file, Tail(positions), acc \o Zeros(p.length))
          ELSE IF p.start + p.length <= Len(file)
            THEN ReadPositions(file, Tail(positions),
                   acc \o SubSeq(file, p.start + 1, p.start + p.length))
          ELSE <<FALSE, acc>>

RECURSIVE WritePositions(_, _, _)
\* bspatch writing the new bytes at its output positions.
WritePositions(file, positions, data) ==
  IF positions = <<>> THEN <<TRUE, file>>
  ELSE LET p == Head(positions)
       IN IF p.start = -1
            THEN WritePositions(file, Tail(positions), Drop(data, p.length))
          ELSE IF p.start + p.length <= Len(file)
            THEN WritePositions(
                   [i \in 1..Len(file) |->
                      IF i > p.start /\ i <= p.start + p.length
                        THEN data[i - p.start] ELSE file[i]],
                   Tail(positions), Drop(data, p.length))
          ELSE <<FALSE, file>>

RECURSIVE TotalLength(_)
TotalLength(positions) ==
  IF positions = <<>> THEN 0
  ELSE Head(positions).length + TotalLength(Tail(positions))

\* The bspatch program on (path, path, patch, input, output): the new bytes
\* are the patch repeated to the output length.  It exits non-zero on a
\* path it cannot open, on an empty patch and on a position outside the
\* file.
Bspatch(w, path, patch, input_positions, output_positions) ==
  IF path = "" \/ patch = <<>> THEN [ok |-> FALSE, w |-> w]
  ELSE LET old == ReadPositions(w.files[path], input_positions, <<>>)
           n == TotalLength(output_positions)
           new == [i \in 1..n |-> patch[((i - 1) % Len(patch)) + 1]]
           out == WritePositions(w.files[path], output_positions, new)
       IN IF old[1] /\ out[1]
            THEN [ok |-> TRUE, w |-> [w EXCEPT !.files[path] = out[2]]]
            ELSE [ok |-> FALSE, w |-> w]

(***************************************************************************)
(* DeltaPerformer.                                                         *)
(***************************************************************************)
IsIdempotentOperation(op) == Len(op.src_extents) = 0

\* DiscardBufferHeadBytes hashing the whole buffer, not its first n bytes.
DiscardBufferHeadBytes_HashesBuffer(w, n) ==
  [w EXCEPT !.hash_calculator_ = HashUpdate(@, w.buffer_),
            !.buffer_ = Drop(@, n)]

DiscardBufferHeadBytes(w, n) ==
  [w EXCEPT !.hash_calculator_ = HashUpdate(@, Take(w.buffer_, n)),
            !.buffer_ = Drop(@, n)]

ResetUpdateProgress(w) ==
  PrefsSet(w, kPrefsUpdateStateNextOperation, kUpdateStateOperationInvalid)

\* CanPerformInstallOperation without the test for a stream that regressed.
CanPerformInstallOperation_NoLowerBound(w, operation) ==
  IF operation.type = "MOVE" THEN TRUE
  ELSE operation.data_offset + operation.data_length
         <= w.buffer_offset_ + Len(w.buffer_)

CanPerformInstallOperation(w, operation) ==
  IF operation.type = "MOVE" THEN TRUE
  ELSE IF operation.data_offset < w.buffer_offset_ THEN FALSE
  ELSE operation.data_offset + operation.data_length
         <= w.buffer_offset_ + Len(w.buffer_)

\* The result ignored by its caller, this is the state it leaves.
ExtractSignatureMessage(w, operation) ==
  IF \/ operation.type # "REPLACE"
     \/ ~w.manifest_.has_signatures_offset
     \/ w.manifest_.signatures_offset # operation.data_offset
    THEN w
  ELSE IF ~(/\ w.manifest_.has_signatures_size
            /\ w.manifest_.signatures_size = operation.data_length)
    THEN w
  ELSE IF w.signatures_message_data_ # <<>> THEN w
  ELSE IF w.buffer_offset_ # w.manifest_.signatures_offset THEN w
  ELSE IF Len(w.buffer_) < w.manifest_.signatures_size THEN w
  ELSE LET w1 == [w EXCEPT
                    !.signatures_message_data_ =
                      Take(w.buffer_, w.manifest_.signatures_size),
                    !.signed_hash_context_ = GetContext(w.hash_calculator_),
                    !.extractions = @ + 1]
       IN PrefsSet(w1, kPrefsUpdateStateSignedSHA256Context,
                   w1.signed_hash_context_).w

\* The history of the operations performed.
Performed(w, is_kernel_partition) ==
  [w EXCEPT !.applied = Append(@, [op |-> w.next_operation_num_,
                                   kernel |-> is_kernel_partition])]

\* Perform*Operation give [r, w]: r is "ok" (true), "fail" (false) or
\* "abort" (a CHECK failed and the process is gone).
PerformReplaceOperation(w, operation, is_kernel_partition) ==
  IF w.buffer_offset_ # operation.data_offset
     \/ Len(w.buffer_) < operation.data_length
    THEN [r |-> "abort", w |-> w]
  ELSE LET w1 == ExtractSignatureMessage(w, operation)
           fd == IF is_kernel_partition THEN w1.kernel_fd_ ELSE w1.fd_
           blob == Take(w1.buffer_, operation.data_length)
           data == IF operation.type = "REPLACE_BZ"
                     THEN BzDecompress(blob) ELSE blob
           wr == ZeroPadExtentWriter(w1, fd, operation.dst_extents,
                                     w1.block_size_, data)
       IN IF ~wr.ok THEN [r |-> "fail", w |-> wr.w]
          ELSE [r |-> "ok",
                w |-> Performed(
                  DiscardBufferHeadBytes(
                    [wr.w EXCEPT !.buffer_offset_ = @ + operation.data_length],
                    operation.data_length),
                  is_kernel_partition)]

RECURSIVE BlocksOf(_)
BlocksOf(extents) ==
  IF extents = <<>> THEN 0
  ELSE Head(extents).num_blocks + BlocksOf(Tail(extents))

RECURSIVE MoveRead(_, _, _, _)
\* The read loop of PerformMoveOperation: <<ok, the bytes read>>.
MoveRead(w, fd, extents, buf) ==
  IF extents = <<>> THEN <<TRUE, buf>>
  ELSE LET e == Head(extents)
           rd == PReadAll(w, fd, e.num_blocks * w.block_size_,
                          e.start_block * w.block_size_)
       IN IF rd.ok THEN MoveRead(w, fd, Tail(extents), buf \o rd.bytes)
                   ELSE <<FALSE, buf>>

RECURSIVE MoveWrite_NoAdvance(_, _, _, _)
\* The write loop without bytes_written += ...: every extent is written
\* from the start of buf.
MoveWrite_NoAdvance(w, fd, extents, buf) ==
  IF extents = <<>> THEN [ok |-> TRUE, w |-> w]
  ELSE LET e == Head(extents)
           n == e.num_blocks * w.block_size_
           wr == PWriteAll(w, fd, Take(buf, n), e.start_block * w.block_size_)
       IN IF wr.ok THEN MoveWrite_NoAdvance(wr.w, fd, Tail(extents), buf)
                   ELSE wr

RECURSIVE MoveWrite(_, _, _, _)
\* The write loop of PerformMoveOperation.
MoveWrite(w, fd, extents, buf) ==
  IF extents = <<>> THEN [ok |-> TRUE, w |-> w]
  ELSE LET e == Head(extents)
           n == e.num_blocks * w.block_size_
           wr == PWriteAll(w, fd, Take(buf, n), e.start_block * w.block_size_)
       IN IF wr.ok THEN MoveWrite(wr.w, fd, Tail(extents), Drop(buf, n))
                   ELSE wr

PerformMoveOperation(w, operation, is_kernel_partition) ==
  LET blocks_to_read == BlocksOf(operation.src_extents)
      blocks_to_write == BlocksOf(operation.dst_extents)
      fd == IF is_kernel_partition THEN w.kernel_fd_ ELSE w.fd_
      rd == MoveRead(w, fd, operation.src_extents, <<>>)
      wr == MoveWrite(w, fd, operation.dst_extents, rd[2])
  IN IF blocks_to_write # blocks_to_read THEN [r |-> "abort", w |-> w]
     ELSE IF ~rd[1] THEN [r |-> "fail", w |-> w]
     ELSE IF ~wr.ok THEN [r |-> "fail", w |-> wr.w]
     ELSE [r |-> "ok", w |-> Performed(wr.w, is_kernel_partition)]

RECURSIVE PositionsLoop(_, _, _, _, _)
\* The loop of ExtentsToBsdiffPositionsString: <<length, ret>>, ret being
\* the entries "start:this_length," written so far.
PositionsLoop(extents, block_size, full_length, length, str) ==
  IF extents = <<>> THEN <<length, str>>
  ELSE LET extent == Head(extents)
           this_length == Min(full_length - length,
                              extent.num_blocks * block_size)
           start == IF extent.start_block = kSparseHole THEN -1
                    ELSE extent.start_block * block_size
       IN PositionsLoop(Tail(extents), block_size, full_length,
            length + this_length,
            Append(str, [start |-> start, length |-> this_length,
                         sep |-> ","]))

\* ExtentsToBsdiffPositionsString without ret.resize(ret.size() - 1).
ExtentsToBsdiffPositionsString_KeepsComma(extents, block_size, full_length) ==
  LET r == PositionsLoop(extents, block_size, full_length, 0, <<>>)
  IN IF r[1] # full_length THEN [ok |-> FALSE, positions_string |-> <<>>]
     ELSE [ok |-> TRUE, positions_string |-> r[2]]

\* [ok, positions_string]; the trailing comma is stripped.
ExtentsToBsdiffPositionsString(extents, block_size, full_length) ==
  LET r == PositionsLoop(extents, block_size, full_length, 0, <<>>)
      str == r[2]
  IN IF r[1] # full_length THEN [ok |-> FALSE, positions_string |-> <<>>]
     ELSE [ok |-> TRUE,
           positions_string |->
             IF str = <<>> THEN str
             ELSE [str EXCEPT ![Len(str)].sep = ""]]

\* The name utils::MakeTempFile gives the patch file.
kTempFilename == "/tmp/au_patch.000001"

\* utils::MakeTempFile: creates the file, unless the directory refuses.
MakeTempFile(w) ==
  IF w.temp_fault = "create" THEN [ok |-> FALSE, w |-> w]
  ELSE [ok |-> TRUE, w |-> [w EXCEPT !.temp_files = @ \cup {kTempFilename}]]

\* ~ScopedPathUnlinker: unlinks the path.
ScopedPathUnlinker(w, path) == [w EXCEPT !.temp_files = @ \ {path}]

\* PerformBsdiffOperation from the declaration of path_unlinker to its
\* return: the patch is written to the temporary file, bspatch runs on the
\* device, and the rest of the last block is zeroed.  The sums and products
\* are those of the 64-bit unsigned domain, of which kuint64max is the
\* largest value.
BsdiffWithTempFile(w, operation, is_kernel_partition, input_positions, output_positions) ==
  LET fd == IF is_kernel_partition THEN w.kernel_fd_ ELSE w.fd_
      path == IF is_kernel_partition THEN w.kernel_path_ ELSE w.path_
      patch == Take(w.buffer_, operation.data_length)
      run == Bspatch(w, path, patch, input_positions, output_positions)
      last_extent == operation.dst_extents[Len(operation.dst_extents)]
      end_byte == ((last_extent.start_block + last_extent.num_blocks)
                     * w.block_size_) % (kuint64max + 1)
      tail == operation.dst_length % w.block_size_
      begin_byte == (end_byte - (w.block_size_ - tail)) % (kuint64max + 1)
      zr == IF tail # 0
              THEN PWriteAll(run.w, fd, Zeros(w.block_size_ - tail),
                             begin_byte)
              ELSE [ok |-> TRUE, w |-> run.w]
  IN IF w.temp_fault = "write" THEN [r |-> "fail", w |-> w]
     ELSE IF ~run.ok THEN [r |-> "fail", w |-> run.w]
     ELSE IF ~zr.ok THEN [r |-> "fail", w |-> zr.w]
     ELSE [r |-> "ok",
           w |-> Performed(
             DiscardBufferHeadBytes(
               [zr.w EXCEPT !.buffer_offset_ = @ + operation.data_length],
               operation.data_length),
             is_kernel_partition)]

PerformBsdiffOperation(w, operation, is_kernel_partition) ==
  IF w.buffer_offset_ # operation.data_offset
     \/ Len(w.buffer_) < operation.data_length
    THEN [r |-> "abort", w |-> w]
  ELSE LET input_positions ==
             ExtentsToBsdiffPositionsString(operation.src_extents,
               w.block_size_, operation.src_length)
           output_positions ==
             ExtentsToBsdiffPositionsString(operation.dst_extents,
               w.block_size_, operation.dst_length)
           temp == MakeTempFile(w)
           patched == BsdiffWithTempFile(temp.w, operation,
                        is_kernel_partition,
                        input_positions.positions_string,
                        output_positions.positions_string)
       IN IF ~input_positions.ok \/ ~output_positions.ok
            THEN [r |-> "fail", w |-> w]
          ELSE IF ~temp.ok THEN [r |-> "fail", w |-> w]
          ELSE [r |-> patched.r,
                w |-> ScopedPathUnlinker(patched.w, kTempFilename)]

\* CanResumeUpdate without the test next_operation > 0.
CanResumeUpdate_AcceptsZero(p, update_check_response_hash) ==
  /\ kPrefsUpdateStateNextOperation \in DOMAIN p
  /\ p[kPrefsUpdateStateNextOperation] # kUpdateStateOperationInvalid
  /\ kPrefsUpdateCheckResponseHash \in DOMAIN p
  /\ p[kPrefsUpdateCheckResponseHash] # ""
  /\ p[kPrefsUpdateCheckResponseHash] = update_check_response_hash
  /\ kPrefsUpdateStateNextDataOffset \in DOMAIN p
  /\ p[kPrefsUpdateStateNextDataOffset] >= 0
  /\ kPrefsUpdateStateSHA256Context \in DOMAIN p
  /\ p[kPrefsUpdateStateSHA256Context] # <<>>
  /\ kPrefsManifestMetadataSize \in DOMAIN p
  /\ p[kPrefsManifestMetadataSize] > 0

\* CanResumeUpdate(prefs, update_check_response_hash), on the store p.
CanResumeUpdate(p, update_check_response_hash) ==
  /\ kPrefsUpdateStateNextOperation \in DOMAIN p
  /\ p[kPrefsUpdateStateNextOperation] # kUpdateStateOperationInvalid
  /\ p[kPrefsUpdateStateNextOperation] > 0
  /\ kPrefsUpdateCheckResponseHash \in DOMAIN p
  /\ p[kPrefsUpdateCheckResponseHash] # ""
  /\ p[kPrefsUpdateCheckResponseHash] = update_check_response_hash
  /\ kPrefsUpdateStateNextDataOffset \in DOMAIN p
  /\ p[kPrefsUpdateStateNextDataOffset] >= 0
  /\ kPrefsUpdateStateSHA256Context \in DOMAIN p
  /\ p[kPrefsUpdateStateSHA256Context] # <<>>
  /\ kPrefsManifestMetadataSize \in DOMAIN p
  /\ p[kPrefsManifestMetadataSize] > 0

\* OmahaHashCalculator::hash() and raw_hash(): empty until Finalize, then the
\* digest of the bytes absorbed, in base64 and raw.
Digest(coding, bytes) == <<coding, bytes>>

\* hash() of a calculator that gives its digest before Finalize.
Hash_BeforeFinalize(h) == Digest("base64", h.bytes)

Hash(h) == IF h.finalized THEN Digest("base64", h.bytes) ELSE <<>>

\* OmahaHashCalculator::SetContext, Finalize and raw_hash() on a saved
\* context; SetContext refuses a context that is not one.
RawHashOfContext(context) ==
  IF context = <<>> THEN [ok |-> FALSE, raw_hash |-> <<>>]
  ELSE [ok |-> TRUE, raw_hash |-> Digest("raw", context)]

\* The public keys a device can hold: none, the key of the payload's signer,
\* the key of a signer who signed another payload, and a key the signature
\* is not made with.
PublicKeys == {"missing", "signer", "stale", "foreign"}

FileExists(key_path) == key_path # "missing"

\* The bytes the signer of the payload hashed: the stream up to the
\* signature blob.
SignedBytes(w) ==
  Take(payload, w.manifest_metadata_size_ + w.manifest_.signatures_offset)

\* PayloadSigner::VerifySignature(signature message, key): [ok,
\* signed_hash_data].
VerifySignature(w, signature_message, key_path) ==
  IF key_path = "signer"
    THEN [ok |-> TRUE, signed_hash_data |-> Digest("raw", SignedBytes(w))]
  ELSE IF key_path = "stale"
    THEN [ok |-> TRUE, signed_hash_data |-> Digest("raw", <<>>)]
  ELSE [ok |-> FALSE, signed_hash_data |-> <<>>]

\* VerifyPayload without the test of the download size.
VerifyPayload_IgnoresSize(w, public_key_path, update_check_response_hash, update_check_response_size) ==
  LET download_hash_data == Hash(w.hash_calculator_)
      verified == VerifySignature(w, w.signatures_message_data_,
                                  public_key_path)
      signed_hasher == RawHashOfContext(w.signed_hash_context_)
  IN IF download_hash_data = <<>> THEN FALSE
     ELSE IF download_hash_data # update_check_response_hash THEN FALSE
     ELSE IF ~FileExists(public_key_path) THEN TRUE
     ELSE IF w.signatures_message_data_ = <<>> THEN FALSE
     ELSE IF ~verified.ok THEN FALSE
     ELSE IF ~signed_hasher.ok THEN FALSE
     ELSE signed_hasher.raw_hash = verified.signed_hash_data

VerifyPayload(w, public_key_path, update_check_response_hash, update_check_response_size) ==
  LET download_hash_data == Hash(w.hash_calculator_)
      verified == VerifySignature(w, w.signatures_message_data_,
                                  public_key_path)
      signed_hasher == RawHashOfContext(w.signed_hash_context_)
  IN IF download_hash_data = <<>> THEN FALSE
     ELSE IF download_hash_data # update_check_response_hash THEN FALSE
     ELSE IF update_check_response_size
               # w.manifest_metadata_size_ + w.buffer_offset_ THEN FALSE
     ELSE IF ~FileExists(public_key_path) THEN TRUE
     ELSE IF w.signatures_message_data_ = <<>> THEN FALSE
     ELSE IF ~verified.ok THEN FALSE
     ELSE IF ~signed_hasher.ok THEN FALSE
     ELSE IF signed_hasher.raw_hash = <<>> THEN FALSE
     ELSE signed_hasher.raw_hash = verified.signed_hash_data

\* ~ScopedTerminatorExitUnblocker: leaving the scope unblocks the exit, and
\* the process exits if an exit was requested meanwhile.
ScopedTerminatorExitUnblocker(w) ==
  [w EXCEPT !.exit_blocked = FALSE, !.exited = @ \/ w.exit_requested]

(***************************************************************************)
(* Write, step by step.  pc names the place the call has reached.          *)
(***************************************************************************)
HeaderLength ==
  Len(kDeltaMagic) + kDeltaVersionLength + kDeltaProtobufLengthLength

\* Write returning value.
Return(w, value) ==
  [w EXCEPT !.pc = "idle", !.ret = value, !.erred = @ \/ value < 0]

\* The entry of Write: the bytes are appended to the buffer.
WriteBegin(w, bytes) ==
  [w EXCEPT !.buffer_ = @ \o bytes, !.count = Len(bytes),
            !.fatal = FALSE, !.pref_failed = FALSE, !.pc = "manifest"]

\* if (!manifest_valid_) { ... }
ParseManifest(w) ==
  IF w.manifest_valid_ THEN [w EXCEPT !.pc = "loop"]
  ELSE IF Len(w.buffer_) < HeaderLength THEN Return(w, w.count)
  ELSE LET protobuf_length ==
             be64toh(SubSeq(w.buffer_,
                            Len(kDeltaMagic) + kDeltaVersionLength + 1,
                            HeaderLength))
           offset == HeaderLength
           parsed == ParseFromArray(
                       SubSeq(w.buffer_, offset + 1, offset + protobuf_length))
           w1 == [w EXCEPT !.manifest_ = parsed.manifest,
                           !.manifest_metadata_size_ =
                             HeaderLength + protobuf_length]
           w2 == DiscardBufferHeadBytes(w1, w1.manifest_metadata_size_)
           w3 == PrefsSet(w2, kPrefsManifestMetadataSize,
                          w2.manifest_metadata_size_).w
       IN IF Len(w.buffer_) < HeaderLength + protobuf_length
            THEN Return(w, w.count)
          ELSE IF ~parsed.ok
            THEN Return([w EXCEPT !.fatal = TRUE], -EINVAL)
          ELSE [w3 EXCEPT !.manifest_valid_ = TRUE,
                          !.block_size_ = w3.manifest_.block_size,
                          !.pc = "loop"]

TotalOperations(w) ==
  Len(w.manifest_.install_operations)
    + Len(w.manifest_.kernel_install_operations)

\* The operation next_operation_num_ selects.
NextOperation(w) ==
  IF w.next_operation_num_ < Len(w.manifest_.install_operations)
    THEN w.manifest_.install_operations[w.next_operation_num_ + 1]
    ELSE w.manifest_.kernel_install_operations[
           w.next_operation_num_ - Len(w.manifest_.install_operations) + 1]

IsKernelPartition(w) ==
  w.next_operation_num_ >= Len(w.manifest_.install_operations)

\* The loop returning the number of bytes consumed when the next blob is
\* incomplete.
OperationLoop_ReturnsConsumed(w) ==
  IF w.next_operation_num_ >= TotalOperations(w) THEN Return(w, w.count)
  ELSE IF ~CanPerformInstallOperation(w, NextOperation(w))
    THEN Return(w, w.count - Len(w.buffer_))
  ELSE IF ~IsIdempotentOperation(NextOperation(w))
    THEN [w EXCEPT !.exit_blocked = TRUE, !.pc = "reset"]
  ELSE [w EXCEPT !.pc = "dispatch"]

\* The head of the while loop, up to the test for a non-idempotent
\* operation.
OperationLoop(w) ==
  IF w.next_operation_num_ >= TotalOperations(w) THEN Return(w, w.count)
  ELSE IF ~CanPerformInstallOperation(w, NextOperation(w))
    THEN Return(w, w.count)
  ELSE IF ~IsIdempotentOperation(NextOperation(w))
    THEN [w EXCEPT !.exit_blocked = TRUE, !.pc = "reset"]
  ELSE [w EXCEPT !.pc = "dispatch"]

\* ResetUpdateProgress(prefs_) before a non-idempotent operation.
PreStepReset(w) == [ResetUpdateProgress(w).w EXCEPT !.pc = "dispatch"]

\* The operation by its type: [r, w].
Dispatch(w, op) ==
  IF op.type = "REPLACE" \/ op.type = "REPLACE_BZ"
    THEN PerformReplaceOperation(w, op, IsKernelPartition(w))
  ELSE IF op.type = "MOVE"
    THEN PerformMoveOperation(w, op, IsKernelPartition(w))
  ELSE IF op.type = "BSDIFF"
    THEN PerformBsdiffOperation(w, op, IsKernelPartition(w))
  ELSE [r |-> "ok", w |-> w]

\* The dispatch with the exit unblocked as soon as the operation is done,
\* before its checkpoint.
PerformOperation_ReleasesAfterStep(w) ==
  LET d == Dispatch(w, NextOperation(w))
  IN IF d.r = "abort" THEN [d.w EXCEPT !.pc = "aborted"]
     ELSE IF d.r = "fail"
       THEN Return(ScopedTerminatorExitUnblocker(
                     [d.w EXCEPT !.fatal = TRUE]), -EINVAL)
     ELSE [ScopedTerminatorExitUnblocker(d.w) EXCEPT
             !.next_operation_num_ = @ + 1,
             !.done_at = Append(@, [offset |-> d.w.buffer_offset_,
                                    context |->
                                      GetContext(d.w.hash_calculator_)]),
             !.pc = "checkpoint"]

\* The dispatch, and next_operation_num_++ when the operation succeeded.
PerformOperation(w) ==
  LET d == Dispatch(w, NextOperation(w))
  IN IF d.r = "abort" THEN [d.w EXCEPT !.pc = "aborted"]
     ELSE IF d.r = "fail"
       THEN Return(ScopedTerminatorExitUnblocker(
                     [d.w EXCEPT !.fatal = TRUE]), -EINVAL)
     ELSE [d.w EXCEPT
             !.next_operation_num_ = @ + 1,
             !.done_at = Append(@, [offset |-> d.w.buffer_offset_,
                                    context |->
                                      GetContext(d.w.hash_calculator_)]),
             !.pc = "checkpoint"]

\* An if in the place of the while: Write returns after one operation.
EndIteration_ReturnsAfterOne(w) ==
  Return(ScopedTerminatorExitUnblocker(w), w.count)

\* The end of an iteration of the loop: CheckpointUpdateProgress has
\* returned, its result is dropped and exit_unblocker leaves its scope.
EndIteration(w) == [ScopedTerminatorExitUnblocker(w) EXCEPT !.pc = "loop"]

\* CheckpointUpdateProgress without Terminator::set_exit_blocked(true).
CheckpointBegin_DoesNotEngage(w) ==
  [w EXCEPT !.pc = IF w.last_updated_buffer_offset_ # w.buffer_offset_
                     THEN "ckpt_reset" ELSE "ckpt_next"]

\* CheckpointUpdateProgress, up to its first preference write.
CheckpointBegin(w) ==
  [w EXCEPT !.exit_blocked = TRUE,
            !.pc = IF w.last_updated_buffer_offset_ # w.buffer_offset_
                     THEN "ckpt_reset" ELSE "ckpt_next"]

CheckpointReset(w) == [ResetUpdateProgress(w).w EXCEPT !.pc = "ckpt_context"]

CheckpointContext(w) ==
  LET s == PrefsSet(w, kPrefsUpdateStateSHA256Context,
                    GetContext(w.hash_calculator_))
  IN IF s.ok THEN [s.w EXCEPT !.pc = "ckpt_offset"] ELSE EndIteration(s.w)

CheckpointOffset(w) ==
  LET s == PrefsSet(w, kPrefsUpdateStateNextDataOffset, w.buffer_offset_)
  IN IF s.ok
       THEN [s.w EXCEPT !.last_updated_buffer_offset_ = w.buffer_offset_,
                        !.pc = "ckpt_next"]
       ELSE EndIteration(s.w)

CheckpointNext(w) ==
  EndIteration(PrefsSet(w, kPrefsUpdateStateNextOperation,
                        w.next_operation_num_).w)

\* One step of the Write call in progress.
Step(w) ==
  CASE w.pc = "manifest" -> ParseManifest(w)
    [] w.pc = "loop" -> OperationLoop(w)
    [] w.pc = "reset" -> PreStepReset(w)
    [] w.pc = "dispatch" -> PerformOperation(w)
    [] w.pc = "checkpoint" -> CheckpointBegin(w)
    [] w.pc = "ckpt_reset" -> CheckpointReset(w)
    [] w.pc = "ckpt_context" -> CheckpointContext(w)
    [] w.pc = "ckpt_offset" -> CheckpointOffset(w)
    [] w.pc = "ckpt_next" -> CheckpointNext(w)

RECURSIVE RunWrite(_)
\* A Write call run to its end: its return, or the abort of the process.
RunWrite(w) ==
  IF w.pc \in {"idle", "aborted"} \/ w.exited THEN w ELSE RunWrite(Step(w))

(***************************************************************************)
(* The initial state: a DeltaPerformer just constructed over a store the   *)
(* host has put the response hash in, and the two devices.                 *)
(***************************************************************************)
\* No call of the host yet.
NoCall == [op |-> "none", ret |-> 0]

DeviceBytes(blocks, base) == [i \in 1..(2 * blocks) |-> base + i]

InitialWorld ==
  [ set_calls |-> 0,
    prefs |-> [k \in {kPrefsUpdateCheckResponseHash} |-> "response-hash"],
    files |-> [rootfs |-> DeviceBytes(RootfsBlocks, 100),
               kernel |-> DeviceBytes(KernelBlocks, 200)],
    open_fds |-> {}, temp_files |-> {}, temp_fault |-> "none",
    exit_blocked |-> FALSE,
    exit_requested |-> FALSE, exited |-> FALSE,
    fd_ |-> -1, kernel_fd_ |-> -1, path_ |-> "", kernel_path_ |-> "",
    buffer_ |-> <<>>, buffer_offset_ |-> 0,
    last_updated_buffer_offset_ |-> kuint64max,
    manifest_valid_ |-> FALSE, manifest_ |-> Manifest(0, <<>>, <<>>),
    manifest_metadata_size_ |-> 0,
    next_operation_num_ |-> 0, block_size_ |-> 0,
    signatures_message_data_ |-> <<>>, signed_hash_context_ |-> <<>>,
    hash_calculator_ |-> [bytes |-> <<>>, finalized |-> FALSE],
    pc |-> "idle", count |-> 0, ret |-> 0, fatal |-> FALSE,
    erred |-> FALSE, pref_failed |-> FALSE,
    applied |-> <<>>, done_at |-> <<>>, extractions |-> 0 ]

Init ==
  /\ payload \in Payloads
  /\ fed = 0
  /\ fail_at \in 0..MaxFailAt
  /\ phase = "setup"
  /\ set_calls = InitialWorld.set_calls
  /\ prefs = InitialWorld.prefs
  /\ files = InitialWorld.files
  /\ open_fds = InitialWorld.open_fds
  /\ temp_files = InitialWorld.temp_files
  /\ temp_fault = InitialWorld.temp_fault
  /\ exit_blocked = InitialWorld.exit_blocked
  /\ exit_requested = InitialWorld.exit_requested
  /\ exited = InitialWorld.exited
  /\ call = NoCall
  /\ fd_ = InitialWorld.fd_
  /\ kernel_fd_ = InitialWorld.kernel_fd_
  /\ path_ = InitialWorld.path_
  /\ kernel_path_ = InitialWorld.kernel_path_
  /\ buffer_ = InitialWorld.buffer_
  /\ buffer_offset_ = InitialWorld.buffer_offset_
  /\ last_updated_buffer_offset_ = InitialWorld.last_updated_buffer_offset_
  /\ manifest_valid_ = InitialWorld.manifest_valid_
  /\ manifest_ = InitialWorld.manifest_
  /\ manifest_metadata_size_ = InitialWorld.manifest_metadata_size_
  /\ next_operation_num_ = InitialWorld.next_operation_num_
  /\ block_size_ = InitialWorld.block_size_
  /\ signatures_message_data_ = InitialWorld.signatures_message_data_
  /\ signed_hash_context_ = InitialWorld.signed_hash_context_
  /\ hash_calculator_ = InitialWorld.hash_calculator_
  /\ pc = InitialWorld.pc
  /\ count = InitialWorld.count
  /\ ret = InitialWorld.ret
  /\ fatal = InitialWorld.fatal
  /\ erred = InitialWorld.erred
  /\ pref_failed = InitialWorld.pref_failed
  /\ applied = InitialWorld.applied
  /\ done_at = InitialWorld.done_at
  /\ extractions = InitialWorld.extractions

(***************************************************************************)
(* The operations.                                                         *)
(***************************************************************************)
\* OpenFile(path, &fd, &err): refuses a descriptor that is not -1.
OpenFile(w, path, fd) ==
  IF fd # -1 THEN [ok |-> FALSE, fd |-> fd, w |-> w]
  ELSE [ok |-> TRUE, fd |-> FdOf(path),
        w |-> [w EXCEPT !.open_fds = @ \cup {FdOf(path)}]]

Calls == UNCHANGED <<payload, fed, fail_at>>

\* The responses of the update check the host verifies against.
ResponseHashes ==
  { <<>>, Digest("base64", hash_calculator_.bytes),
    Digest("base64", <<>>) }

ResponseSizes ==
  { manifest_metadata_size_ + buffer_offset_,
    manifest_metadata_size_ + buffer_offset_ + 1 }

AfterWrite == IF phase = "setup" THEN "setup" ELSE "mixed"

\* The host calls between two steps of the process, while it is alive.
Callable == pc = "idle" /\ ~exited

Called(op, value) == [op |-> op, ret |-> value]

Open ==
  /\ Callable
  /\ LET o == OpenFile(World, "rootfs", fd_)
     IN /\ Install([o.w EXCEPT !.fd_ = o.fd,
                               !.path_ = IF o.ok THEN "rootfs" ELSE @])
        /\ call' = Called("Open", IF o.ok THEN 0 ELSE -EINVAL)
  /\ phase' = AfterWrite
  /\ Calls

OpenKernel ==
  /\ Callable
  /\ LET o == OpenFile(World, "kernel", kernel_fd_)
     IN /\ Install([o.w EXCEPT !.kernel_fd_ = o.fd,
                               !.kernel_path_ = IF o.ok THEN "kernel" ELSE @])
        /\ call' = Called("OpenKernel", o.ok)
  /\ phase' = AfterWrite
  /\ Calls

\* Close() without the test of the buffer.
CloseOp_ClosesAnyway(w) ==
  [w EXCEPT !.open_fds = @ \ {w.kernel_fd_, w.fd_},
            !.hash_calculator_.finalized = TRUE,
            !.fd_ = -2, !.path_ = ""]

\* Close(): refused while the buffer holds bytes; else both descriptors are
\* closed, the hash is finalized and fd_ is made unusable.
CloseOp(w) ==
  IF w.buffer_ # <<>> THEN w
  ELSE [w EXCEPT !.open_fds = @ \ {w.kernel_fd_, w.fd_},
                 !.hash_calculator_.finalized = TRUE,
                 !.fd_ = -2, !.path_ = ""]

\* What Close() returns: -1 for a buffer that is not empty, else -errno of
\* the last close() that failed, else 0.
CloseReturn(w) ==
  IF w.buffer_ # <<>> THEN -1
  ELSE IF w.fd_ \notin w.open_fds \/ w.kernel_fd_ \notin w.open_fds
    THEN -EBADF
  ELSE 0

Close ==
  /\ Callable
  /\ Install(CloseOp(World))
  /\ call' = Called("Close", CloseReturn(World))
  /\ UNCHANGED phase
  /\ Calls

\* The sizes of the next chunk when left bytes of the payload are left.
ChunkSizes(left) ==
  {n \in (1..MaxChunk) \cup {HeaderLength, left} : n >= 1 /\ n <= left}

\* The host calls Write with the next bytes of the payload.  Close ends the
\* stream: Write is not called on a closed performer.
WriteCall ==
  /\ Callable
  /\ fd_ # -2
  /\ call' = Called("Write", 0)
  /\ \E n \in ChunkSizes(Len(payload) - fed) :
       /\ Install(WriteBegin(World, SubSeq(payload, fed + 1, fed + n)))
       /\ fed' = fed + n
  /\ phase' = IF phase = "setup" THEN "streaming" ELSE phase
  /\ UNCHANGED <<payload, fail_at>>

\* The call in progress takes its next step.
WriteStep ==
  /\ pc \notin {"idle", "aborted"}
  /\ ~exited
  /\ Install(Step(World))
  /\ UNCHANGED <<phase, call>>
  /\ Calls

\* The host calls VerifyPayload with a key path, the hash and the size of
\* the update check's response.
VerifyPayloadCall ==
  /\ Callable
  /\ \E value \in { VerifyPayload(World, key, hash, size) :
                        key \in PublicKeys, hash \in ResponseHashes,
                        size \in ResponseSizes } :
       call' = Called("VerifyPayload", value)
  /\ Install(World)
  /\ UNCHANGED phase
  /\ Calls

\* Terminator::HandleSignal, at any moment of the process's life: it exits
\* at once unless the exit is blocked, and then it leaves the request.
HandleSignal ==
  /\ ~exited
  /\ pc # "aborted"
  /\ ~exit_requested
  /\ Install([World EXCEPT !.exited = ~exit_blocked,
                           !.exit_requested = exit_blocked])
  /\ UNCHANGED <<phase, call>>
  /\ Calls

Next ==
  \/ Open \/ OpenKernel \/ Close \/ WriteCall \/ WriteStep
  \/ VerifyPayloadCall

Spec == Init /\ [][Next]_vars

\* The applier under a Terminator that is signalled at any moment.
NextSignalled == Open \/ OpenKernel \/ WriteCall \/ WriteStep \/ HandleSignal

SpecSignalled == Init /\ [][NextSignalled]_vars

(***************************************************************************)
(* The static functions over the preferences store, CanResumeUpdate and    *)
(* ResetUpdateProgress, called by the host on any store.                   *)
(***************************************************************************)
\* The performer and its environment are as in w.
Constructed(w) ==
  /\ set_calls = w.set_calls
  /\ files = w.files
  /\ open_fds = w.open_fds
  /\ temp_files = w.temp_files
  /\ temp_fault = w.temp_fault
  /\ exit_blocked = w.exit_blocked
  /\ exit_requested = w.exit_requested
  /\ exited = w.exited
  /\ fd_ = w.fd_
  /\ kernel_fd_ = w.kernel_fd_
  /\ path_ = w.path_
  /\ kernel_path_ = w.kernel_path_
  /\ buffer_ = w.buffer_
  /\ buffer_offset_ = w.buffer_offset_
  /\ last_updated_buffer_offset_ = w.last_updated_buffer_offset_
  /\ manifest_valid_ = w.manifest_valid_
  /\ manifest_ = w.manifest_
  /\ manifest_metadata_size_ = w.manifest_metadata_size_
  /\ next_operation_num_ = w.next_operation_num_
  /\ block_size_ = w.block_size_
  /\ signatures_message_data_ = w.signatures_message_data_
  /\ signed_hash_context_ = w.signed_hash_context_
  /\ hash_calculator_ = w.hash_calculator_
  /\ pc = w.pc
  /\ count = w.count
  /\ ret = w.ret
  /\ fatal = w.fatal
  /\ erred = w.erred
  /\ pref_failed = w.pref_failed
  /\ applied = w.applied
  /\ done_at = w.done_at
  /\ extractions = w.extractions

ResumeKeys ==
  { kPrefsUpdateStateNextOperation, kPrefsUpdateCheckResponseHash,
    kPrefsUpdateStateNextDataOffset, kPrefsUpdateStateSHA256Context,
    kPrefsManifestMetadataSize }

\* The store that holds, for the keys present, these values.
StoreOf(present, next_operation, response_hash, next_data_offset, sha256_context, metadata_size) ==
  [k \in present |->
     CASE k = kPrefsUpdateStateNextOperation -> next_operation
       [] k = kPrefsUpdateCheckResponseHash -> response_hash
       [] k = kPrefsUpdateStateNextDataOffset -> next_data_offset
       [] k = kPrefsUpdateStateSHA256Context -> sha256_context
       [] k = kPrefsManifestMetadataSize -> metadata_size]

CheckResponseHashes == {"", "response-hash", "another-hash"}

Stores ==
  { StoreOf(present, n, h, o, c, m) :
      present \in SUBSET ResumeKeys,
      n \in {kUpdateStateOperationInvalid, 0, 1, 2},
      h \in CheckResponseHashes,
      o \in {-1, 0, 1},
      c \in {<<>>, kDeltaMagic},
      m \in {0, HeaderLength + 1} }

InitResume ==
  /\ payload = <<>>
  /\ fed = 0
  /\ fail_at \in {0, 1}
  /\ phase = "setup"
  /\ call = NoCall
  /\ prefs \in Stores
  /\ Constructed([InitialWorld EXCEPT !.prefs = prefs])

CanResumeUpdateCall ==
  /\ Callable
  /\ \E h \in CheckResponseHashes :
       call' = [op |-> "CanResumeUpdate", ret |-> CanResumeUpdate(prefs, h),
                update_check_response_hash |-> h]
  /\ Install(World)
  /\ UNCHANGED phase
  /\ Calls

ResetUpdateProgressCall ==
  /\ Callable
  /\ LET r == ResetUpdateProgress(World)
     IN /\ Install(r.w)
        /\ call' = Called("ResetUpdateProgress", r.ok)
  /\ UNCHANGED phase
  /\ Calls

NextResume == CanResumeUpdateCall \/ ResetUpdateProgressCall

SpecResume == InitResume /\ [][NextResume]_vars

(***************************************************************************)
(* The applier on the payloads of one BSDIFF, with a temporary directory   *)
(* that works, refuses to create the patch file, or refuses the write.     *)
(***************************************************************************)
TempFaults == {"none", "create", "write"}

InitBsdiff ==
  /\ payload \in BsdiffPayloads
  /\ fed = 0
  /\ fail_at = 0
  /\ phase = "setup"
  /\ call = NoCall
  /\ prefs = InitialWorld.prefs
  /\ \E fault \in TempFaults :
       Constructed([InitialWorld EXCEPT !.temp_fault = fault])

NextBsdiff == Open \/ WriteCall \/ WriteStep

SpecBsdiff == InitBsdiff /\ [][NextBsdiff]_vars

(***************************************************************************)
(* ExtentsToBsdiffPositionsString on its own: a static function, called    *)
(* with extents, block sizes and lengths no manifest of the catalogue has.  *)
(***************************************************************************)
PositionExtents ==
  { Extent(start_block, num_blocks) :
      start_block \in {0, 1, kSparseHole}, num_blocks \in 0..MaxNumBlocks }

PositionExtentLists ==
  UNION { [1..n -> PositionExtents] : n \in 0..MaxExtents }

PositionBlockSizes == {1, 2}

InitPositions ==
  /\ payload = <<>>
  /\ fed = 0
  /\ fail_at = 0
  /\ phase = "setup"
  /\ \E extents \in PositionExtentLists, block_size \in PositionBlockSizes,
        full_length \in 0..MaxFullLength :
       call = [op |-> "none", ret |-> FALSE, extents |-> extents,
               block_size |-> block_size, full_length |-> full_length,
               positions_string |-> <<>>]
  /\ prefs = InitialWorld.prefs
  /\ Constructed(InitialWorld)

ExtentsToBsdiffPositionsStringCall ==
  /\ Callable
  /\ call.op = "none"
  /\ LET r == ExtentsToBsdiffPositionsString(call.extents, call.block_size,
                                             call.full_length)
     IN call' = [call EXCEPT !.op = "ExtentsToBsdiffPositionsString",
                             !.ret = r.ok,
                             !.positions_string = r.positions_string]
  /\ Install(World)
  /\ UNCHANGED phase
  /\ Calls

NextPositions == ExtentsToBsdiffPositionsStringCall

SpecPositions == InitPositions /\ [][NextPositions]_vars

(***************************************************************************)
(* C1: chunking independence.                                              *)
(***************************************************************************)
\* The state one Write of the whole payload ends in, from a performer just
\* constructed and opened as this one is.
WholePayload ==
  RunWrite(WriteBegin(
    [InitialWorld EXCEPT !.fd_ = fd_, !.kernel_fd_ = kernel_fd_,
                         !.path_ = path_, !.kernel_path_ = kernel_path_,
                         !.open_fds = open_fds],
    payload))

\* What C1 compares.
Outcome(w) ==
  [ files |-> w.files, hashed |-> w.hash_calculator_.bytes,
    buffer_offset_ |-> w.buffer_offset_,
    next_operation_num_ |-> w.next_operation_num_,
    buffer_ |-> w.buffer_, prefs |-> w.prefs ]

\* The chunks of the whole payload have been written, by Write calls alone
\* since the first one, and the last call has returned.
AllChunksWritten ==
  pc = "idle" /\ fed = Len(payload) /\ phase = "streaming" /\ fd_ # -2

WriteSucceeded ==
  pc = "idle" /\ phase # "setup" /\ ret = count /\ manifest_valid_

\* C2: after every Write that returns successfully, once the manifest is
\* valid, the hash has absorbed exactly the first manifest_metadata_size_ +
\* buffer_offset_ bytes of the stream and buffer_ holds exactly the bytes
\* of the stream that follow them.
C2_HashIsConsumedPrefix ==
  WriteSucceeded =>
    /\ hash_calculator_.bytes
         = Take(payload, manifest_metadata_size_ + buffer_offset_)
    /\ buffer_
         = SubSeq(payload, manifest_metadata_size_ + buffer_offset_ + 1, fed)

\* A blob has been consumed and a byte is still waiting in the buffer.
C2_Witness ==
  WriteSucceeded /\ buffer_offset_ > 0 /\ buffer_ # <<>> /\ ~erred

(***************************************************************************)
(* C3: the checkpoint a crash leaves behind is consistent.                 *)
(***************************************************************************)
\* C3: in every state, a stored valid update-state-next-operation n comes
\* with the update-state-next-data-offset and the update-state-sha256-
\* context of the point reached after exactly n operations.
C3_CheckpointConsistent ==
  (/\ kPrefsUpdateStateNextOperation \in DOMAIN prefs
   /\ prefs[kPrefsUpdateStateNextOperation] # kUpdateStateOperationInvalid)
  => LET n == prefs[kPrefsUpdateStateNextOperation]
     IN /\ n \in 1..Len(done_at)
        /\ kPrefsUpdateStateNextDataOffset \in DOMAIN prefs
        /\ prefs[kPrefsUpdateStateNextDataOffset] = done_at[n].offset
        /\ kPrefsUpdateStateSHA256Context \in DOMAIN prefs
        /\ prefs[kPrefsUpdateStateSHA256Context] = done_at[n].context

\* The same holds in every state of the runs in which no preference write
\* fails.
CheckpointConsistentIfStoreWorks == fail_at = 0 => C3_CheckpointConsistent

(***************************************************************************)
(* C4: no resume across a non-idempotent operation.                        *)
(***************************************************************************)
\* The operation Write is executing or checkpointing.
OperationInProgress ==
  IF pc \in {"reset", "dispatch"} THEN NextOperation(World)
  ELSE AllOperations(manifest_)[next_operation_num_]

\* From the start of a non-idempotent operation to the last preference
\* write of its checkpoint.
InNonIdempotentStep ==
  /\ pc \in {"dispatch", "checkpoint", "ckpt_reset", "ckpt_context",
             "ckpt_offset", "ckpt_next"}
  /\ ~IsIdempotentOperation(OperationInProgress)

\* C4: while a non-idempotent operation executes and until its checkpoint
\* is complete, the store makes CanResumeUpdate false for every response
\* hash.
C4_NoResumeAcrossNonIdempotent ==
  InNonIdempotentStep
    => \A h \in {"response-hash", "another-hash"} : ~CanResumeUpdate(prefs, h)

\* The same holds in every state of the runs in which no preference write
\* fails.
NoResumeIfStoreWorks == fail_at = 0 => C4_NoResumeAcrossNonIdempotent

(***************************************************************************)
(* C5: the operations are performed in list order, once each.              *)
(***************************************************************************)
PerformedInOrder ==
  /\ Len(applied) = next_operation_num_
  /\ \A i \in 1..Len(applied) :
       /\ applied[i].op = i - 1
       /\ applied[i].kernel = (i > Len(manifest_.install_operations))
       /\ LET op == AllOperations(manifest_)[i]
          IN op.type # "MOVE"
               => op.data_offset + op.data_length <= buffer_offset_

\* C5: the operations before next_operation_num_ are exactly the operations
\* performed, in list order, each on the partition of its list, and the
\* blob of each has been consumed (checked on the runs in which no
\* preference write fails).
C5_PerformedInOrder == fail_at = 0 => PerformedInOrder

\* The same holds of the manifests whose operations all have a type Write
\* dispatches on.
PerformedInOrderIfTypesKnown ==
  (\A i \in 1..Len(AllOperations(manifest_)) :
     AllOperations(manifest_)[i].type # "OTHER") => PerformedInOrder

(***************************************************************************)
(* C6: a failing preference write fails the Write.                         *)
(***************************************************************************)
\* C6: a Write during which a preference-store write failed returns an
\* error.
C6_PrefFailureFailsWrite ==
  (pc = "idle" /\ pref_failed) => ret < 0

(***************************************************************************)
(* C7: a regressed stream fails the Write.                                 *)
(***************************************************************************)
\* The next operation's blob starts before buffer_offset_.
StreamRegressed ==
  /\ manifest_valid_
  /\ next_operation_num_ < TotalOperations(World)
  /\ NextOperation(World).type # "MOVE"
  /\ NextOperation(World).data_offset < buffer_offset_

\* C7: a Write that finds the stream regressed returns an error (checked
\* on the runs in which no preference write fails).
C7_RegressionFailsWrite ==
  (fail_at = 0 /\ pc = "idle" /\ StreamRegressed) => ret < 0

(***************************************************************************)
(* C8: a payload with another magic tag is rejected.                       *)
(***************************************************************************)
\* C8: behind a tag other than kDeltaMagic the manifest never becomes valid,
\* no operation is performed and the Write that has the whole prefix
\* returns an error (checked on the runs in which no preference write
\* fails).
C8_BadMagicRejected ==
  (fail_at = 0 /\ Take(payload, Len(kDeltaMagic)) # kDeltaMagic)
    => /\ ~manifest_valid_
       /\ applied = <<>>
       /\ (pc = "idle" /\ fed = Len(payload)) => ret < 0

(***************************************************************************)
(* C9: an operation of an unknown type fails the Write.                    *)
(***************************************************************************)
\* C9: next_operation_num_ never passes an operation whose type is none of
\* REPLACE, REPLACE_BZ, MOVE, BSDIFF (checked on the runs in which no
\* preference write fails).
C9_UnknownTypeNotPassed ==
  fail_at = 0 =>
    \A i \in 1..next_operation_num_ :
      AllOperations(manifest_)[i].type
        \in {"REPLACE", "REPLACE_BZ", "MOVE", "BSDIFF"}

(***************************************************************************)
(* C10: Write returns count unless it hits a fatal error.                  *)
(***************************************************************************)
\* C10: a Write that hit no parse error and no failing operation returns
\* count, and the bytes of all the calls so far are in the stream: the
\* hashed bytes followed by the buffer are the bytes written.
C10_WriteReturnsCount ==
  (pc = "idle" /\ phase # "setup" /\ ~fatal)
    => /\ ret = count
       /\ hash_calculator_.bytes \o buffer_ = Take(payload, fed)

\* A Write returned with the next blob still incomplete.
C10_Witness ==
  /\ pc = "idle" /\ phase # "setup" /\ ~fatal /\ ret = count
  /\ manifest_valid_
  /\ next_operation_num_ < TotalOperations(World)
  /\ buffer_ # <<>>
  /\ NextOperation(World).data_offset = buffer_offset_

(***************************************************************************)
(* C11: the exit is blocked during a non-idempotent operation and during   *)
(* the checkpoint's preference writes.                                     *)
(***************************************************************************)
\* Write is executing a non-idempotent operation: from the reset of the
\* stored progress that precedes it to the end of the operation.
ExecutingNonIdempotent ==
  /\ pc \in {"reset", "dispatch"}
  /\ ~IsIdempotentOperation(NextOperation(World))

\* CheckpointUpdateProgress is at one of its preference writes.
InCheckpointWrites ==
  pc \in {"ckpt_reset", "ckpt_context", "ckpt_offset", "ckpt_next"}

\* C11: with the Terminator signalled at any moment, at every step of a
\* non-idempotent operation and at every preference write of
\* CheckpointUpdateProgress the exit is blocked and the process has not
\* exited.
C11_ExitBlockedInCriticalSteps ==
  (ExecutingNonIdempotent \/ InCheckpointWrites)
    => exit_blocked /\ ~exited

\* The signal came while a non-idempotent operation was about to access the
\* device: the exit is requested and the process goes on.
C11_Witness ==
  /\ ExecutingNonIdempotent /\ pc = "dispatch"
  /\ exit_requested /\ ~exited
  /\ open_fds # {}

(***************************************************************************)
(* C12: when the exit is unblocked again.                                  *)
(***************************************************************************)
\* This step unblocks the exit.
Released == exit_blocked /\ ~exit_blocked'

\* This step is the last preference write of the checkpoint, and it stores
\* next_operation_num_.
CompletesCheckpoint ==
  /\ pc = "ckpt_next"
  /\ kPrefsUpdateStateNextOperation \in DOMAIN prefs'
  /\ prefs'[kPrefsUpdateStateNextOperation] = next_operation_num_

\* C12 as stated: the exit, once blocked for an operation, is unblocked only
\* by the step that completes the checkpoint of that operation (checked on
\* the runs in which no preference write fails).
C12_ReleasedAfterCheckpoint ==
  [][(fail_at = 0 /\ Released) => CompletesCheckpoint]_vars

\* C12, amended: the exit, once blocked for an operation, is unblocked only
\* as the iteration of Write's loop ends: when CheckpointUpdateProgress
\* returns, after its last preference write or after one that failed, or
\* when the operation fails and Write returns the error.
C12_ReleasedAtEndOfIteration ==
  [][Released =>
       \/ pc = "ckpt_next"
       \/ pc \in {"ckpt_context", "ckpt_offset"} /\ pref_failed'
       \/ pc = "dispatch" /\ pc' = "idle" /\ ret' = -EINVAL]_vars

\* A non-idempotent operation has been checkpointed and the exit is
\* unblocked again.
C12_Witness ==
  /\ pc = "loop" /\ ~exit_blocked /\ ~exited
  /\ next_operation_num_ > 0
  /\ ~IsIdempotentOperation(AllOperations(manifest_)[next_operation_num_])
  /\ kPrefsUpdateStateNextOperation \in DOMAIN prefs
  /\ prefs[kPrefsUpdateStateNextOperation] = next_operation_num_

(***************************************************************************)
(* C13: the signature message is extracted once, at the signature blob.    *)
(***************************************************************************)
\* The operations of the manifest that carry the signature message.
SignatureOperations ==
  { i \in 1..Len(AllOperations(manifest_)) :
      LET op == AllOperations(manifest_)[i]
      IN /\ op.type = "REPLACE"
         /\ manifest_.has_signatures_offset
         /\ op.data_offset = manifest_.signatures_offset
         /\ manifest_.has_signatures_size
         /\ op.data_length = manifest_.signatures_size }

\* Where the signature blob starts in the stream.
SignatureStart == manifest_metadata_size_ + manifest_.signatures_offset

\* The extraction was for such an operation, the message is the blob's
\* signatures_size bytes, the signed context is the hash state over the
\* stream before the blob, and that context is in the store.
ExtractedAsStated ==
  /\ \E i \in SignatureOperations : i <= next_operation_num_ + 1
  /\ signatures_message_data_
       = SubSeq(payload, SignatureStart + 1,
                SignatureStart + manifest_.signatures_size)
  /\ signed_hash_context_ = Take(payload, SignatureStart)
  /\ kPrefsUpdateStateSignedSHA256Context \in DOMAIN prefs
  /\ prefs[kPrefsUpdateStateSignedSHA256Context] = signed_hash_context_

\* C13: the signature message is extracted at most once in a run, and once
\* it is, it was for a REPLACE at signatures_offset of signatures_size
\* bytes, signatures_message_data_ is that blob, signed_hash_context_ is the
\* hash state over exactly the stream bytes before the blob, and that
\* context is persisted.
C13_SignatureExtraction ==
  /\ extractions <= 1
  /\ extractions = 1 => ExtractedAsStated
  /\ extractions = 0 => signatures_message_data_ = <<>>

\* The same holds in every state of the runs in which no preference write
\* fails.
SignatureExtractionIfStoreWorks == fail_at = 0 => C13_SignatureExtraction

\* The signature message has been extracted, by a Write that was retried
\* after the devices were opened.
SignatureExtractedOnRetry ==
  /\ extractions = 1 /\ fail_at = 0 /\ erred
  /\ Len(applied) = TotalOperations(World)

(***************************************************************************)
(* C14: what VerifyPayload accepts.                                        *)
(***************************************************************************)
\* The hash is finalized and is the response's, the size consumed is the
\* response's, and the key file is missing or the signature message that
\* was extracted verifies against it to the digest of the signed context.
VerifiesAsStated(key, hash, size) ==
  /\ hash_calculator_.finalized
  /\ hash = Digest("base64", hash_calculator_.bytes)
  /\ size = manifest_metadata_size_ + buffer_offset_
  /\ \/ ~FileExists(key)
     \/ /\ signatures_message_data_ # <<>>
        /\ VerifySignature(World, signatures_message_data_, key).ok
        /\ VerifySignature(World, signatures_message_data_, key)
             .signed_hash_data = Digest("raw", signed_hash_context_)

\* C14: VerifyPayload(key, expected_hash, expected_size) returns true iff
\* expected_hash is the finalized hash of the bytes consumed, expected_size
\* is manifest_metadata_size_ + buffer_offset_, and the key file does not
\* exist or a signature message was extracted, verifies against the key
\* and the digest of signed_hash_context_ is the signed hash; what the
\* host's call returned is one of these values.
C14_VerifyPayload ==
  /\ \A key \in PublicKeys, hash \in ResponseHashes, size \in ResponseSizes :
       VerifyPayload(World, key, hash, size)
         = VerifiesAsStated(key, hash, size)
  /\ call.op = "VerifyPayload" =>
       \E key \in PublicKeys, hash \in ResponseHashes,
          size \in ResponseSizes :
         call.ret = VerifiesAsStated(key, hash, size)

\* VerifyPayload has returned true for a payload whose signature verifies
\* against the signer's key, and would return false against the others.
C14_Witness ==
  /\ call.op = "VerifyPayload" /\ call.ret = TRUE
  /\ signatures_message_data_ # <<>>
  /\ VerifyPayload(World, "signer", Hash(hash_calculator_),
                   manifest_metadata_size_ + buffer_offset_)
  /\ ~VerifyPayload(World, "stale", Hash(hash_calculator_),
                    manifest_metadata_size_ + buffer_offset_)
  /\ ~VerifyPayload(World, "foreign", Hash(hash_calculator_),
                    manifest_metadata_size_ + buffer_offset_)

(***************************************************************************)
(* C15: what CanResumeUpdate accepts.                                      *)
(***************************************************************************)
\* A next operation that is stored, is not the invalid one and is > 0; a
\* stored response hash that is not empty and is h; a stored next data
\* offset >= 0; a stored SHA-256 context that is not empty; a stored
\* manifest metadata size > 0.
ResumableAsStated(p, h) ==
  /\ kPrefsUpdateStateNextOperation \in DOMAIN p
  /\ p[kPrefsUpdateStateNextOperation] # -1
  /\ p[kPrefsUpdateStateNextOperation] > 0
  /\ kPrefsUpdateCheckResponseHash \in DOMAIN p
  /\ p[kPrefsUpdateCheckResponseHash] = h /\ h # ""
  /\ kPrefsUpdateStateNextDataOffset \in DOMAIN p
  /\ ~(p[kPrefsUpdateStateNextDataOffset] < 0)
  /\ kPrefsUpdateStateSHA256Context \in DOMAIN p
  /\ Len(p[kPrefsUpdateStateSHA256Context]) > 0
  /\ kPrefsManifestMetadataSize \in DOMAIN p
  /\ p[kPrefsManifestMetadataSize] >= 1

CanResumeUpdateAsStated ==
  /\ \A h \in CheckResponseHashes :
       CanResumeUpdate(prefs, h) = ResumableAsStated(prefs, h)
  /\ call.op = "CanResumeUpdate" =>
       call.ret = ResumableAsStated(prefs, call.update_check_response_hash)

\* C15 as stated: CanResumeUpdate(prefs, h) is true iff the store holds
\* these five values, and after ResetUpdateProgress(prefs) it is false for
\* every h.
C15_CanResumeUpdate ==
  /\ CanResumeUpdateAsStated
  /\ call.op = "ResetUpdateProgress" =>
       \A h \in CheckResponseHashes : ~CanResumeUpdate(prefs, h)

\* C15, amended: CanResumeUpdate(prefs, h) is true iff the store holds these
\* five values, and after a ResetUpdateProgress(prefs) that returned true
\* it is false for every h.
C15_CanResumeUpdateAfterReset ==
  /\ CanResumeUpdateAsStated
  /\ (call.op = "ResetUpdateProgress" /\ call.ret) =>
       \A h \in CheckResponseHashes : ~CanResumeUpdate(prefs, h)

\* CanResumeUpdate has returned false on a store that a ResetUpdateProgress
\* has reset and that holds the four other values.
C15_Witness ==
  /\ call.op = "CanResumeUpdate" /\ ~call.ret
  /\ set_calls = 1 /\ fail_at = 0
  /\ DOMAIN prefs = ResumeKeys
  /\ ResumableAsStated(
       [prefs EXCEPT ![kPrefsUpdateStateNextOperation] = 1],
       call.update_check_response_hash)

(***************************************************************************)
(* C16: the usage errors of Open, OpenKernel and Close.                    *)
(***************************************************************************)
\* The performer, the devices and the store: all but the record of the
\* host's call.
Performer ==
  << prefs, files, open_fds, fd_, kernel_fd_, path_, kernel_path_, buffer_,
     buffer_offset_, last_updated_buffer_offset_, manifest_valid_, manifest_,
     manifest_metadata_size_, next_operation_num_, block_size_,
     signatures_message_data_, signed_hash_context_, hash_calculator_ >>

\* This step is the host's call of op.
Calling(op) == pc = "idle" /\ ~exited /\ call'.op = op

\* C16: Open on an fd_ that is not -1 and OpenKernel on a kernel_fd_ that is
\* not -1 return an error and change nothing; Close on a buffer that is not
\* empty returns an error and changes nothing, so that the descriptors
\* stay open and the hash is not finalized; and once a Close has finalized
\* the hash every Open returns an error.
C16_UsageErrors ==
  [][/\ (Calling("Open") /\ fd_ # -1)
        => call'.ret < 0 /\ Performer' = Performer
     /\ (Calling("OpenKernel") /\ kernel_fd_ # -1)
        => call'.ret = FALSE /\ Performer' = Performer
     /\ (Calling("Close") /\ buffer_ # <<>>)
        => call'.ret < 0 /\ Performer' = Performer
     /\ (Calling("Open") /\ hash_calculator_.finalized)
        => call'.ret < 0 /\ Performer' = Performer]_vars

\* Close has refused a buffer that is not empty, with both devices open.
C16_Witness ==
  /\ call.op = "Close" /\ call.ret = -1
  /\ buffer_ # <<>>
  /\ {fd_, kernel_fd_} \subseteq open_fds
  /\ ~hash_calculator_.finalized

\* Open has failed on a performer a Close has closed.
OpenRefusedAfterClose ==
  /\ call.op = "Open" /\ call.ret = -EINVAL
  /\ hash_calculator_.finalized /\ fd_ = -2
  /\ applied # <<>>

(***************************************************************************)
(* C17: the blob of the operation dispatched is at the head of the buffer. *)
(***************************************************************************)
\* Write is about to perform an operation that takes its data from the
\* buffer.
DispatchingBlobOperation ==
  /\ pc = "dispatch"
  /\ NextOperation(World).type \in {"REPLACE", "REPLACE_BZ", "BSDIFF"}

BlobAtBufferHead ==
  /\ pc # "aborted"
  /\ DispatchingBlobOperation
       => /\ buffer_offset_ = NextOperation(World).data_offset
          /\ Len(buffer_) >= NextOperation(World).data_length

\* C17: whenever a REPLACE, REPLACE_BZ or BSDIFF is dispatched,
\* buffer_offset_ is its data_offset and the buffer holds its data_length
\* bytes, and no CHECK of Perform*Operation ever fails, whatever the
\* manifest (checked on the runs in which no preference write fails).
C17_BlobAtBufferHead == fail_at = 0 => BlobAtBufferHead

\* The blobs of the operations follow one another without a gap.
RECURSIVE Contiguous(_, _)
Contiguous(ops, offset) ==
  IF ops = <<>> THEN TRUE
  ELSE IF Head(ops).type = "MOVE" THEN Contiguous(Tail(ops), offset)
  ELSE /\ Head(ops).data_offset <= offset
       /\ Contiguous(Tail(ops),
                     Head(ops).data_offset + Head(ops).data_length)

\* The same holds of the manifests whose blobs leave no gap.
BlobAtBufferHeadIfContiguous ==
  (manifest_valid_ => Contiguous(AllOperations(manifest_), 0))
    => BlobAtBufferHead

(***************************************************************************)
(* C18: Write performs an operation only if it can, and stops only if it   *)
(* cannot go on.                                                           *)
(***************************************************************************)
\* A MOVE, or an operation whose whole blob is in the buffer.
Executable(op) ==
  \/ op.type = "MOVE"
  \/ /\ op.data_offset >= buffer_offset_
     /\ op.data_offset + op.data_length <= buffer_offset_ + Len(buffer_)

\* C18: an operation that Write executes is a MOVE or has its whole blob
\* buffered at or after buffer_offset_, and when Write has returned count
\* with a valid manifest either every operation is done or the next one is
\* not executable.
C18_MaximalProgress ==
  /\ pc \in {"reset", "dispatch"} => Executable(NextOperation(World))
  /\ (pc = "idle" /\ phase # "setup" /\ ret = count /\ manifest_valid_)
       => \/ next_operation_num_ = TotalOperations(World)
          \/ ~Executable(NextOperation(World))

\* Write has performed an operation and returned before the next one, whose
\* blob is not all there.
C18_Witness ==
  /\ pc = "idle" /\ ret = count /\ manifest_valid_ /\ fail_at = 0
  /\ applied # <<>>
  /\ next_operation_num_ < TotalOperations(World)
  /\ NextOperation(World).data_offset = buffer_offset_
  /\ Len(buffer_) < NextOperation(World).data_length

(***************************************************************************)
(* C19: what a MOVE changes.                                               *)
(***************************************************************************)
RECURSIVE ExtentBlocks(_)
\* The blocks of a list of extents.
ExtentBlocks(extents) ==
  IF extents = <<>> THEN {}
  ELSE LET e == Head(extents)
       IN (e.start_block .. (e.start_block + e.num_blocks - 1))
            \cup ExtentBlocks(Tail(extents))

RECURSIVE ExtentsBytes(_, _, _)
\* The bytes of a device at a list of extents, in the order of the extents.
ExtentsBytes(file, extents, block_size) ==
  IF extents = <<>> THEN <<>>
  ELSE LET e == Head(extents)
       IN SubSeq(file, e.start_block * block_size + 1,
                 (e.start_block + e.num_blocks) * block_size)
            \o ExtentsBytes(file, Tail(extents), block_size)

\* This step performs a MOVE, which succeeds.
MovePerformed ==
  /\ pc = "dispatch"
  /\ NextOperation(World).type = "MOVE"
  /\ pc' = "checkpoint"

\* What the step of a MOVE leaves alone and what it writes.
MoveFrame ==
  LET op == NextOperation(World)
      device == IF IsKernelPartition(World) THEN "kernel" ELSE "rootfs"
      other == IF IsKernelPartition(World) THEN "rootfs" ELSE "kernel"
      src == ExtentBlocks(op.src_extents)
      dst == ExtentBlocks(op.dst_extents)
  IN /\ buffer_' = buffer_
     /\ buffer_offset_' = buffer_offset_
     /\ hash_calculator_' = hash_calculator_
     /\ prefs' = prefs
     /\ BlocksOf(op.src_extents) = BlocksOf(op.dst_extents)
     /\ files'[other] = files[other]
     /\ \A i \in 1..Len(files[device]) :
          ((i - 1) \div block_size_) \notin dst
            => files'[device][i] = files[device][i]
     /\ src \cap dst = {}
          => /\ ExtentsBytes(files'[device], op.src_extents, block_size_)
                = ExtentsBytes(files[device], op.src_extents, block_size_)
             /\ ExtentsBytes(files'[device], op.dst_extents, block_size_)
                = ExtentsBytes(files[device], op.src_extents, block_size_)

\* CheckpointUpdateProgress is running for a MOVE.
CheckpointingMove ==
  /\ pc \in {"checkpoint", "ckpt_reset", "ckpt_context", "ckpt_offset",
             "ckpt_next"}
  /\ AllOperations(manifest_)[next_operation_num_].type = "MOVE"

\* The checkpoint is at a preference write other than the last one, of
\* update-state-next-operation.
PersistsMoreThanNextOperation ==
  pc \in {"ckpt_reset", "ckpt_context", "ckpt_offset"}

MovedTwoExtents ==
  /\ CheckpointingMove /\ pc = "ckpt_next"
  /\ manifest_ = ManifestMoveFirst
  /\ ExtentsBytes(files.rootfs, <<Extent(1, 1), Extent(3, 1)>>, 2)
       = ExtentsBytes(DeviceBytes(RootfsBlocks, 100),
                      <<Extent(0, 1), Extent(2, 1)>>, 2)

(***************************************************************************)
(* C20: the positions string of a list of extents.                         *)
(***************************************************************************)
RECURSIVE EmittedLength(_, _)
\* The sum of the lengths of the first n entries of a positions string.
EmittedLength(positions_string, n) ==
  IF n = 0 THEN 0
  ELSE positions_string[n].length + EmittedLength(positions_string, n - 1)

\* The result of a call is as C20 says.
PositionsAsStated(extents, block_size, full_length, ok, positions_string) ==
  /\ ok = (BlocksOf(extents) * block_size >= full_length)
  /\ ok =>
       /\ Len(positions_string) = Len(extents)
       /\ EmittedLength(positions_string, Len(positions_string)) = full_length
       /\ \A i \in 1..Len(extents) :
            /\ positions_string[i].length
                 = Min(full_length - EmittedLength(positions_string, i - 1),
                       extents[i].num_blocks * block_size)
            /\ positions_string[i].start
                 = IF extents[i].start_block = kSparseHole THEN -1
                   ELSE extents[i].start_block * block_size
            /\ positions_string[i].sep
                 = IF i < Len(extents) THEN "," ELSE ""

\* C20: ExtentsToBsdiffPositionsString succeeds iff the extents hold at
\* least full_length bytes; then the lengths it emits sum to full_length,
\* each is the minimum of what is left of full_length and the extent's
\* bytes, a sparse hole starts at -1 and any other extent at start_block *
\* block_size, and there is one entry per extent, commas only between
\* entries.
C20_PositionsString ==
  call.op = "ExtentsToBsdiffPositionsString"
    => PositionsAsStated(call.extents, call.block_size, call.full_length,
                         call.ret, call.positions_string)

\* A call succeeded on a sparse hole followed by an extent of which only a
\* part is needed.
C20_Witness ==
  /\ call.op = "ExtentsToBsdiffPositionsString"
  /\ call.ret
  /\ Len(call.extents) = 2
  /\ call.extents[1].start_block = kSparseHole
  /\ call.positions_string[1].start = -1
  /\ call.positions_string[2].length > 0
  /\ call.positions_string[2].length
       < call.extents[2].num_blocks * call.block_size

\* A call failed: the extents hold less than full_length.
PositionsRefused ==
  /\ call.op = "ExtentsToBsdiffPositionsString"
  /\ ~call.ret
  /\ call.extents # <<>>

(***************************************************************************)
(* C21: the tail of the last block and the temporary file of a BSDIFF.     *)
(***************************************************************************)
RECURSIVE ExtentPositions(_, _)
\* The device bytes of a list of extents, in order, as indices into the
\* device (0 for a byte of a sparse hole).
ExtentPositions(extents, block_size) ==
  IF extents = <<>> THEN <<>>
  ELSE LET e == Head(extents)
       IN [i \in 1..(e.num_blocks * block_size) |->
             IF e.start_block = kSparseHole THEN 0
             ELSE e.start_block * block_size + i]
            \o ExtentPositions(Tail(extents), block_size)

\* The BSDIFF this step performs returns true.
BsdiffPerformed ==
  /\ pc = "dispatch"
  /\ NextOperation(World).type = "BSDIFF"
  /\ pc' = "checkpoint"

\* The device of the operation Write is at.
DeviceOfOperation == IF IsKernelPartition(World) THEN "kernel" ELSE "rootfs"

\* The bytes of the device that are zero after this step and were not
\* before it.
Zeroed ==
  { i \in 1..Len(files[DeviceOfOperation]) :
      files'[DeviceOfOperation][i] = 0 /\ files[DeviceOfOperation][i] # 0 }

\* The destination bytes past dst_length: from the first byte after the
\* patched output to the end of the last destination block.
PastOutput ==
  LET op == NextOperation(World)
      positions == ExtentPositions(op.dst_extents, block_size_)
  IN { positions[i] : i \in (op.dst_length + 1)..Len(positions) } \ {0}

\* The zeroing of this step is what C21 says of a BSDIFF.
ZeroedAsStated ==
  Zeroed = IF NextOperation(World).dst_length % block_size_ # 0
             THEN PastOutput ELSE {}

\* The destination extents end in the block the patched output ends in,
\* and that block is on the device.
OutputEndsInLastBlock ==
  LET op == NextOperation(World)
      last_extent == op.dst_extents[Len(op.dst_extents)]
  IN /\ last_extent.start_block # kSparseHole
     /\ last_extent.num_blocks > 0
     /\ BlocksOf(op.dst_extents) * block_size_ - op.dst_length < block_size_

\* C21: after a successful BSDIFF the bytes zeroed are none if dst_length
\* is a multiple of block_size and else exactly the destination bytes past
\* dst_length; and no temporary patch file exists when
\* PerformBsdiffOperation has returned, true or false.
C21_TailZeroedTempFileGone ==
  [][/\ BsdiffPerformed => ZeroedAsStated
     /\ temp_files' = {}]_vars

\* The same for the BSDIFFs whose destination extents end in the block the
\* output ends in.
TailZeroedIfOutputEndsInLastBlock ==
  [][/\ (BsdiffPerformed /\ OutputEndsInLastBlock) => ZeroedAsStated
     /\ temp_files' = {}]_vars

\* A BSDIFF has zeroed the tail of its block.
BsdiffZeroedTail ==
  /\ pc = "checkpoint"
  /\ AllOperations(manifest_)[next_operation_num_].type = "BSDIFF"
  /\ AllOperations(manifest_)[next_operation_num_].dst_length = 3
  /\ AllOperations(manifest_)[next_operation_num_].dst_extents
       = <<Extent(1, 2)>>
  /\ files.rootfs[6] = 0
  /\ files.rootfs[5] # 0

\* A BSDIFF returned false after its patch file was made.
BsdiffFailedAfterTempFile ==
  /\ pc = "idle" /\ ret < 0
  /\ temp_fault = "none"
  /\ manifest_valid_
  /\ AllOperations(manifest_)[1].dst_extents = <<Extent(3, 2)>>
  /\ AllOperations(manifest_)[1].dst_length = 3

(***************************************************************************)
(* C22: verification of a payload with bytes no operation consumes.        *)
(***************************************************************************)
\* The payload has a manifest and bytes after the last data blob its
\* operations refer to.
TrailingBytes ==
  LET m == ParseFromArray(SubSeq(payload, HeaderLength + 1, HeaderLength + 1))
  IN /\ Len(payload) > HeaderLength
     /\ Take(payload, Len(kDeltaMagic)) = kDeltaMagic
     /\ m.ok
     /\ Len(payload) > HeaderLength + 1 + BlobEnd(AllOperations(m.manifest))

\* The last call of the host was a VerifyPayload that returned true.
Verified == call.op = "VerifyPayload" /\ call.ret

\* The hash has been finalized by a Close that found the buffer empty and
\* ran to its end.
FinalizedByClose ==
  hash_calculator_.finalized => (buffer_ = <<>> /\ fd_ = -2)

VerifiedBeforeTrailingBytes ==
  /\ TrailingBytes /\ Verified
  /\ fed = Len(payload) - 1
  /\ next_operation_num_ = Len(AllOperations(manifest_))

(***************************************************************************)
(* C23: what a Write that fails inside an operation leaves behind.         *)
(***************************************************************************)
\* This step is an operation that returns false: Write returns -EINVAL.
OperationFails ==
  /\ pc = "dispatch"
  /\ pc' = "idle"
  /\ ret' = -EINVAL

\* The value stored under a key, and whether there is one.
Persisted(p, key) ==
  IF key \in DOMAIN p THEN <<TRUE, p[key]>> ELSE <<FALSE, 0>>

\* The operation's step leaves the checkpoint keys of the store alone.
NoCheckpointWritten ==
  \A key \in {kPrefsUpdateStateNextOperation, kPrefsUpdateStateNextDataOffset,
               kPrefsUpdateStateSHA256Context} :
    Persisted(prefs', key) = Persisted(prefs, key)

\* What the failing step leaves behind, the store apart.
FailedWriteState ==
  /\ next_operation_num_' = next_operation_num_
  /\ buffer_offset_' = buffer_offset_
  /\ buffer_' = buffer_
  /\ hash_calculator_' = hash_calculator_
  /\ NoCheckpointWritten
  /\ ~exit_blocked'

\* The persisted next_operation is INVALID after the step.
NextOperationInvalid ==
  Persisted(prefs', kPrefsUpdateStateNextOperation)
    = <<TRUE, kUpdateStateOperationInvalid>>

\* C23: a Write that fails inside an operation leaves next_operation_num_
\* and buffer_offset_ as they were before the operation, writes no
\* checkpoint, keeps the bytes appended to the buffer, returns with exit
\* unblocked, as every Write does, and leaves the persisted next_operation
\* INVALID if the operation was not idempotent.
C23_FailedWrite ==
  [][/\ OperationFails =>
          /\ FailedWriteState
          /\ ~IsIdempotentOperation(NextOperation(World))
               => NextOperationInvalid
     /\ pc' = "idle" => ~exit_blocked']_vars

\* The same on the runs in which no preference write fails.
FailedWriteIfStoreWorks ==
  [][fail_at = 0 =>
       /\ OperationFails =>
            /\ FailedWriteState
            /\ ~IsIdempotentOperation(NextOperation(World))
                 => NextOperationInvalid
       /\ pc' = "idle" => ~exit_blocked']_vars

\* What holds also when preference writes fail.
FailedWriteButForStore ==
  [][/\ OperationFails => FailedWriteState
     /\ pc' = "idle" => ~exit_blocked']_vars

\* A Write has failed inside a MOVE, with bytes in the buffer and the
\* store reset.
FailedInsideMove ==
  /\ pc = "idle" /\ ret = -EINVAL
  /\ manifest_ = ManifestBadMove
  /\ next_operation_num_ = 1
  /\ buffer_ # <<>>
  /\ fail_at = 0
  /\ prefs[kPrefsUpdateStateNextOperation] = kUpdateStateOperationInvalid

====
